---- MODULE Spec2Model ----
(***************************************************************************)
(* tagboat: the tagger library (App over one SQLite connection) and the    *)
(* tagger command line.  The state is the database file (schema version,   *)
(* journal mode, the three tables), whether a process holds an App, and    *)
(* the outcome of the last call.  Every SQL statement can be made to fail  *)
(* by the storage engine; the inputs `fault` of the operations choose      *)
(* where.                                                                  *)
(***************************************************************************)
EXTENDS Integers, Sequences, FiniteSets, TLC

\* ------------------------------------------------------------------ bounds

\* Most rows (files + tags + associations) the database is let grow to.
MaxRows == 4

\* Strings used as filenames and as tag names (one set: the two name spaces
\* are meant to overlap).
Names == {"a", "b"}

\* A path that is not valid UTF-8, and the paths the command line is given.
BadPath == "\\xFF"
Paths == Names \cup {BadPath}

\* --------------------------------------------------------------- the schema

\* Number of migration scripts in the migrations directory: the version
\* to_latest brings the database to.
LatestVersion == 2

\* files.filename and tags.name carry no UNIQUE constraint; file_tags has no
\* key over (file_id, tag_id).
FilenameUnique == FALSE
TagNameUnique == FALSE
AssocUnique == FALSE

VARIABLES
    db,     \* the database file: user_version, journal_mode, files, tags, file_tags
    app,    \* "open" while a process holds an App value, else "none"
    ret,    \* the last call: [op, arg, out, fault, lines]
    hist    \* history: what create_file / create_tag returned, what tag_file linked,
            \* and whether every row so far was written by a `tag` command

vars == <<db, app, ret, hist>>

\* ------------------------------------------------------------ result values

Ok(v) == [kind |-> "Ok", val |-> v]
Err(e) == [kind |-> "Err", val |-> e]
Some(v) == [kind |-> "Some", val |-> v]
None == [kind |-> "None", val |-> 0]
Panic == [kind |-> "Panic", val |-> "SQL Error"]
Unit == [kind |-> "Unit", val |-> 0]

DatabaseError == "DatabaseError"
DirectoryError == "DirectoryError"

\* ----------------------------------------------------- the storage engine

MaxOf(S) == CHOOSE m \in S : \A x \in S : x <= m

Ids(rows) == {rows[k].id : k \in 1..Len(rows)}

\* The rowid SQLite gives a new row of an INTEGER PRIMARY KEY table.
NewRowidReuse(rows) == IF rows = <<>> THEN 1 ELSE MaxOf(Ids(rows))
NewRowid(rows) == IF rows = <<>> THEN 1 ELSE MaxOf(Ids(rows)) + 1

\* Connection::last_insert_rowid after an INSERT into `rows`.
last_insert_rowid(rows) == rows[Len(rows)].id

\* Connection::query_row: the first row of the scan, else QueryReturnedNoRows.
query_row(rows) == IF rows = <<>> THEN None ELSE Some(rows[1].id)

TotalRows(d) == Len(d.files) + Len(d.tags) + Len(d.file_tags)

\* Where the storage engine fails during a call: [at, k].  at = "none": nowhere.
NoFault == [at |-> "none", k |-> 0]
FaultAt(a) == [at |-> a, k |-> 0]

\* Migrations::to_latest: every pending migration in one transaction, which
\* is rolled back when one of them fails.  fault.at = "version": reading
\* user_version fails; fault.at = "migrate": migration number fault.k fails.
to_latest_one_step(v, fault) ==
    IF fault.at = "version" THEN [ok |-> FALSE, version |-> v]
    ELSE IF fault.at = "migrate" /\ fault.k \in (v + 1)..LatestVersion
         THEN [ok |-> FALSE, version |-> v]
    ELSE [ok |-> TRUE, version |-> v + 1]
to_latest_no_rollback(v, fault) ==
    IF fault.at = "version" THEN [ok |-> FALSE, version |-> v]
    ELSE IF fault.at = "migrate" /\ fault.k \in (v + 1)..LatestVersion
         THEN [ok |-> FALSE, version |-> fault.k - 1]
    ELSE [ok |-> TRUE, version |-> LatestVersion]
to_latest(v, fault) ==
    IF fault.at = "version" THEN [ok |-> FALSE, version |-> v]
    ELSE IF fault.at = "migrate" /\ fault.k \in (v + 1)..LatestVersion
         THEN [ok |-> FALSE, version |-> v]
    ELSE [ok |-> TRUE, version |-> LatestVersion]

\* ------------------------------------------------------------- the facade

\* App::init.  Connection::open, then PRAGMA journal_mode = WAL, then the
\* migrations; only the last maps its error to DirectoryError.
init(d, fault) ==
    IF fault.at = "open" THEN [db |-> d, out |-> Err(DatabaseError)]
    ELSE IF fault.at = "pragma" THEN [db |-> d, out |-> Err(DatabaseError)]
    ELSE LET d1 == [d EXCEPT !.journal_mode = "wal"]
             m == to_latest(d1.user_version, fault)
             d2 == [d1 EXCEPT !.user_version = m.version]
         IN  IF m.ok THEN [db |-> d2, out |-> Ok("App")]
                     ELSE [db |-> d2, out |-> Err(DirectoryError)]

\* App::create_file: INSERT INTO files (filename), then last_insert_rowid.
create_file_dedup(d, filename, fault) ==
    LET old == SelectSeq(d.files, LAMBDA r : r.filename = filename) IN
    IF fault.at = "create_file" THEN [db |-> d, out |-> Err(DatabaseError)]
    ELSE IF old # <<>> THEN [db |-> d, out |-> Ok(old[1].id)]
    ELSE LET row == [id |-> NewRowid(d.files), filename |-> filename]
             d1 == [d EXCEPT !.files = Append(@, row)]
         IN  [db |-> d1, out |-> Ok(last_insert_rowid(d1.files))]
create_file(d, filename, fault) ==
    IF fault.at = "create_file"
         \/ (FilenameUnique /\ \E k \in 1..Len(d.files) : d.files[k].filename = filename)
    THEN [db |-> d, out |-> Err(DatabaseError)]
    ELSE LET row == [id |-> NewRowid(d.files), filename |-> filename]
             d1 == [d EXCEPT !.files = Append(@, row)]
         IN  [db |-> d1, out |-> Ok(last_insert_rowid(d1.files))]

\* App::get_file: SELECT id FROM files WHERE filename = ?1, first row.
get_file_last(d, filename, fault) ==
    LET rows == SelectSeq(d.files, LAMBDA r : r.filename = filename) IN
    IF fault.at = "get_file" THEN [db |-> d, out |-> Panic]
    ELSE [db |-> d, out |-> IF rows = <<>> THEN None ELSE Some(rows[Len(rows)].id)]
get_file(d, filename, fault) ==
    IF fault.at = "get_file" THEN [db |-> d, out |-> Panic]
    ELSE [db |-> d,
          out |-> query_row(SelectSeq(d.files, LAMBDA r : r.filename = filename))]

\* App::create_tag: INSERT INTO tags (name) RETURNING id.
create_tag(d, tag_name, fault) ==
    IF fault.at = "create_tag"
         \/ (TagNameUnique /\ \E k \in 1..Len(d.tags) : d.tags[k].name = tag_name)
    THEN [db |-> d, out |-> Err(DatabaseError)]
    ELSE LET row == [id |-> NewRowid(d.tags), name |-> tag_name]
         IN  [db |-> [d EXCEPT !.tags = Append(@, row)], out |-> Ok(row.id)]

\* App::get_tag: SELECT id FROM tags WHERE name = ?1, first row.
get_tag_from_files(d, tag_name, fault) ==
    IF fault.at = "get_tag" THEN [db |-> d, out |-> Panic]
    ELSE [db |-> d,
          out |-> query_row(SelectSeq(d.files, LAMBDA r : r.filename = tag_name))]
get_tag_last(d, tag_name, fault) ==
    LET rows == SelectSeq(d.tags, LAMBDA r : r.name = tag_name) IN
    IF fault.at = "get_tag" THEN [db |-> d, out |-> Panic]
    ELSE [db |-> d, out |-> IF rows = <<>> THEN None ELSE Some(rows[Len(rows)].id)]
get_tag(d, tag_name, fault) ==
    IF fault.at = "get_tag" THEN [db |-> d, out |-> Panic]
    ELSE [db |-> d,
          out |-> query_row(SelectSeq(d.tags, LAMBDA r : r.name = tag_name))]

\* App::tag_file: INSERT INTO file_tags (file_id, tag_id) VALUES (file, tag);
\* an error is printed and the process panics.
tag_file_swallow(d, tag, file, fault) ==
    IF fault.at = "tag_file" THEN [db |-> d, out |-> Unit]
    ELSE [db |-> [d EXCEPT !.file_tags = Append(@, [file_id |-> file, tag_id |-> tag])],
          out |-> Unit]
tag_file(d, tag, file, fault) ==
    IF fault.at = "tag_file"
         \/ (AssocUnique /\ \E k \in 1..Len(d.file_tags) :
                d.file_tags[k] = [file_id |-> file, tag_id |-> tag])
    THEN [db |-> d, out |-> Panic]
    ELSE [db |-> [d EXCEPT !.file_tags = Append(@, [file_id |-> file, tag_id |-> tag])],
          out |-> Unit]

\* The rows of file_tags INNER JOIN files ON files.id = file_tags.file_id
\* WHERE file_tags.tag_id = tag, in scan order.
RECURSIVE JoinRows(_, _, _)
JoinRows(ft, fs, tag) ==
    IF ft = <<>> THEN <<>>
    ELSE (IF Head(ft).tag_id = tag
          THEN SelectSeq(fs, LAMBDA f : f.id = Head(ft).file_id)
          ELSE <<>>) \o JoinRows(Tail(ft), fs, tag)

\* App::get_files_for_tag.  An error of prepare or query_map is returned
\* with `?`; an error while stepping (fault.at = "step", after fault.k rows)
\* is an Err item of the iterator, which .ok() and flatten() drop, and the
\* iterator ends there; a column of row fault.k that does not decode
\* (fault.at = "decode") fails its expect, a panic.
get_files_for_tag_no_where(d, tag, fault) ==
    IF fault.at = "prepare" THEN [db |-> d, out |-> Err(DatabaseError)]
    ELSE LET rows == SelectSeq(d.files, LAMBDA f :
                         \E k \in 1..Len(d.file_tags) : d.file_tags[k].file_id = f.id)
             n == IF fault.at = "step" /\ fault.k < Len(rows) THEN fault.k ELSE Len(rows)
         IN  [db |-> d, out |-> Ok(SubSeq(rows, 1, n))]
get_files_for_tag(d, tag, fault) ==
    IF fault.at = "prepare" THEN [db |-> d, out |-> Err(DatabaseError)]
    ELSE LET rows == JoinRows(d.file_tags, d.files, tag)
             n == IF fault.at = "step" /\ fault.k < Len(rows) THEN fault.k ELSE Len(rows)
         IN  IF fault.at = "decode" /\ fault.k \in 1..Len(rows)
             THEN [db |-> d, out |-> Panic]
             ELSE [db |-> d, out |-> Ok(SubSeq(rows, 1, n))]

\* ----------------------------------------------------------------- history

\* What the calls returned, kept beside the database and never read by it.
NoteFile(h, filename, r) ==
    IF r.out.kind = "Ok"
    THEN [h EXCEPT !.files = Append(@, [filename |-> filename, id |-> r.out.val])]
    ELSE h

NoteTag(h, tag_name, r) ==
    IF r.out.kind = "Ok"
    THEN [h EXCEPT !.tags = Append(@, [name |-> tag_name, id |-> r.out.val])]
    ELSE h

NoteAssoc(h, tag, file, r) ==
    IF r.out.kind = "Unit" THEN [h EXCEPT !.assoc = Append(@, <<tag, file>>)] ELSE h

\* A row written by anything but a `tag` command ends only_tag.
NoteOther(h, d1, d2) ==
    IF TotalRows(d1) = TotalRows(d2) THEN h ELSE [h EXCEPT !.only_tag = FALSE]

\* ------------------------------------------------------- the command line

\* path_to_string: a PathBuf that is valid UTF-8 becomes that String, any
\* other is an error.
path_to_string(path) == IF path = BadPath THEN Err("BadFilename") ELSE Ok(path)

\* How a run of main ends: the database, the history, main's result (Ok,
\* Err or a panic) and the lines printed.
Proc(d, h, out, lines) == [db |-> d, hist |-> h, out |-> out, lines |-> lines]

FileNames(rows) == [k \in 1..Len(rows) |-> rows[k].filename]

\* main, Commands::Add.
cli_add(d, h, path, fault) ==
    LET i == init(d, fault) IN
    IF i.out.kind # "Ok" THEN Proc(i.db, h, i.out, <<>>) ELSE
    LET s == path_to_string(path) IN
    IF s.kind # "Ok" THEN Proc(i.db, h, s, <<>>) ELSE
    LET c == create_file(i.db, s.val, fault) IN
    Proc(c.db, NoteFile(h, s.val, c), IF c.out.kind = "Ok" THEN Ok(0) ELSE c.out, <<>>)

\* main, Commands::Tag, the file: get_file, and create_file when it finds none.
file_or_create_always(d, h, filename, fault) ==
    LET c == create_file(d, filename, fault) IN
    Proc(c.db, NoteFile(h, filename, c), c.out, <<"File wasn't being tracked">>)
file_or_create(d, h, filename, fault) ==
    LET g == get_file(d, filename, fault) IN
    IF g.out.kind = "Panic" THEN Proc(g.db, h, Panic, <<>>) ELSE
    IF g.out.kind = "Some" THEN Proc(g.db, h, Ok(g.out.val), <<>>) ELSE
    LET c == create_file(g.db, filename, fault) IN
    Proc(c.db, NoteFile(h, filename, c), c.out, <<"File wasn't being tracked">>)

\* main, Commands::Tag, the tag: get_tag, and create_tag when it finds none.
tag_or_create(d, h, tag, fault) ==
    LET g == get_tag(d, tag, fault) IN
    IF g.out.kind = "Panic" THEN Proc(g.db, h, Panic, <<>>) ELSE
    IF g.out.kind = "Some" THEN Proc(g.db, h, Ok(g.out.val), <<>>) ELSE
    LET c == create_tag(g.db, tag, fault) IN
    Proc(c.db, NoteTag(h, tag, c), c.out, <<"Tag didn't exist">>)

\* main, Commands::Tag.
cli_tag(d, h, path, tag, fault) ==
    LET i == init(d, fault) IN
    IF i.out.kind # "Ok" THEN Proc(i.db, h, i.out, <<>>) ELSE
    LET s == path_to_string(path) IN
    IF s.kind # "Ok" THEN Proc(i.db, h, s, <<>>) ELSE
    LET f == file_or_create(i.db, h, s.val, fault) IN
    IF f.out.kind # "Ok" THEN f ELSE
    LET t == tag_or_create(f.db, f.hist, tag, fault)
        l == f.lines \o t.lines
    IN
    IF t.out.kind # "Ok" THEN Proc(t.db, t.hist, t.out, l) ELSE
    LET a == tag_file(t.db, t.out.val, f.out.val, fault) IN
    IF a.out.kind = "Panic"
    THEN Proc(a.db, t.hist, Panic, Append(l, "SQL ERROR"))
    ELSE Proc(a.db, NoteAssoc(t.hist, t.out.val, f.out.val, a), Ok(0), l)

\* main, Commands::Scan and Commands::Update: placeholders that print.
cli_scan(d, h, fault) ==
    LET i == init(d, fault) IN
    IF i.out.kind # "Ok" THEN Proc(i.db, h, i.out, <<>>)
    ELSE Proc(i.db, h, Ok(0), <<"This would walk the directory">>)

cli_update(d, h, fault) ==
    LET i == init(d, fault) IN
    IF i.out.kind # "Ok" THEN Proc(i.db, h, i.out, <<>>)
    ELSE Proc(i.db, h, Ok(0), <<"This command would take a file">>)

\* main, Commands::Search.
cli_search(d, h, tag, fault) ==
    LET i == init(d, fault) IN
    IF i.out.kind # "Ok" THEN Proc(i.db, h, i.out, <<>>) ELSE
    LET gt == get_tag(i.db, tag, fault) IN
    IF gt.out.kind = "Panic" THEN Proc(gt.db, h, Panic, <<>>) ELSE
    IF gt.out.kind = "None" THEN Proc(gt.db, h, Ok(0), <<"This tag doesn't exist.">>) ELSE
    LET r == get_files_for_tag(gt.db, gt.out.val, fault) IN
    IF r.out.kind # "Ok" THEN Proc(r.db, h, r.out, <<>>)
    ELSE Proc(r.db, h, Ok(0), FileNames(r.out.val))

\* ------------------------------------------------------------------ actions

Ret(op, arg, out, fault, lines) ==
    [op |-> op, arg |-> arg, out |-> out, fault |-> fault, lines |-> lines]

\* Where init can fail on database d.
InitFaults(d) ==
    {FaultAt("open"), FaultAt("pragma"), FaultAt("version")}
        \cup {[at |-> "migrate", k |-> k] : k \in (d.user_version + 1)..LatestVersion}

\* Where reading the rows of a query over file_tags can fail.
StepFaults(d) ==
    {[at |-> "step", k |-> k] : k \in 0..Len(d.file_tags)}
        \cup {[at |-> "decode", k |-> k] : k \in 1..Len(d.file_tags)}

Init ==
    /\ db = [user_version |-> 0, journal_mode |-> "delete",
             files |-> <<>>, tags |-> <<>>, file_tags |-> <<>>]
    /\ app = "none"
    /\ ret = Ret("start", <<>>, Unit, NoFault, <<>>)
    /\ hist = [files |-> <<>>, tags |-> <<>>, assoc |-> <<>>, only_tag |-> TRUE]

\* A process calls App::init and keeps the App it gets.
AppInit(fault) ==
    LET r == init(db, fault) IN
    /\ db' = r.db
    /\ app' = IF r.out.kind = "Ok" THEN "open" ELSE app
    /\ ret' = Ret("init", <<>>, r.out, fault, <<>>)
    /\ UNCHANGED hist

\* The App is dropped (the process ends).
AppDrop ==
    /\ app = "open"
    /\ app' = "none"
    /\ ret' = Ret("drop", <<>>, Unit, NoFault, <<>>)
    /\ UNCHANGED <<db, hist>>

\* A call of a facade method on the App; a panic ends the process.
Facade(op, arg, r, h, fault) ==
    /\ app = "open"
    /\ TotalRows(r.db) <= MaxRows
    /\ db' = r.db
    /\ hist' = NoteOther(h, db, r.db)
    /\ app' = IF r.out.kind = "Panic" THEN "none" ELSE app
    /\ ret' = Ret(op, arg, r.out, fault, <<>>)

CreateFile(filename, fault) ==
    LET r == create_file(db, filename, fault) IN
    Facade("create_file", <<filename>>, r, NoteFile(hist, filename, r), fault)

GetFile(filename, fault) ==
    Facade("get_file", <<filename>>, get_file(db, filename, fault), hist, fault)

CreateTag(tag_name, fault) ==
    LET r == create_tag(db, tag_name, fault) IN
    Facade("create_tag", <<tag_name>>, r, NoteTag(hist, tag_name, r), fault)

GetTag(tag_name, fault) ==
    Facade("get_tag", <<tag_name>>, get_tag(db, tag_name, fault), hist, fault)

TagFile(tag, file, fault) ==
    LET r == tag_file(db, tag, file, fault) IN
    Facade("tag_file", <<tag, file>>, r, NoteAssoc(hist, tag, file, r), fault)

GetFilesForTag(tag, fault) ==
    Facade("get_files_for_tag", <<tag>>, get_files_for_tag(db, tag, fault), hist, fault)

\* One run of the command line: its own process, its own App.
Cli(op, arg, p, fault) ==
    /\ TotalRows(p.db) <= MaxRows
    /\ db' = p.db
    /\ hist' = p.hist
    /\ ret' = Ret(op, arg, p.out, fault, p.lines)
    /\ UNCHANGED app

CliAdd(path, fault) ==
    LET p == cli_add(db, hist, path, fault) IN
    Cli("add", <<path>>, [p EXCEPT !.hist = NoteOther(@, db, p.db)], fault)

CliTag(path, tag, fault) ==
    Cli("tag", <<path, tag>>, cli_tag(db, hist, path, tag, fault), fault)

CliScan(fault) == Cli("scan", <<>>, cli_scan(db, hist, fault), fault)

CliUpdate(fault) == Cli("update", <<>>, cli_update(db, hist, fault), fault)

CliSearch(tag, fault) ==
    Cli("search", <<tag>>, cli_search(db, hist, tag, fault), fault)

Next ==
    \/ \E fault \in {NoFault} \cup InitFaults(db) : AppInit(fault)
    \/ AppDrop
    \/ \E f \in Names, fault \in {NoFault, FaultAt("create_file")} : CreateFile(f, fault)
    \/ \E f \in Names, fault \in {NoFault, FaultAt("get_file")} : GetFile(f, fault)
    \/ \E t \in Names, fault \in {NoFault, FaultAt("create_tag")} : CreateTag(t, fault)
    \/ \E t \in Names, fault \in {NoFault, FaultAt("get_tag")} : GetTag(t, fault)
    \/ \E t \in Ids(db.tags), f \in Ids(db.files), fault \in {NoFault, FaultAt("tag_file")} :
          TagFile(t, f, fault)
    \/ \E t \in Ids(db.tags), fault \in {NoFault, FaultAt("prepare")} \cup StepFaults(db) :
          GetFilesForTag(t, fault)
    \/ \E p \in Paths, fault \in {NoFault, FaultAt("create_file")} \cup InitFaults(db) :
          CliAdd(p, fault)
    \/ \E p \in Paths, t \in Names,
          fault \in {NoFault, FaultAt("get_file"), FaultAt("create_file"), FaultAt("get_tag"),
                     FaultAt("create_tag"), FaultAt("tag_file")} \cup InitFaults(db) :
          CliTag(p, t, fault)
    \/ \E fault \in {NoFault} \cup InitFaults(db) : CliScan(fault)
    \/ \E fault \in {NoFault} \cup InitFaults(db) : CliUpdate(fault)
    \/ \E t \in Names,
          fault \in {NoFault, FaultAt("get_tag"), FaultAt("prepare")}
                       \cup StepFaults(db) \cup InitFaults(db) :
          CliSearch(t, fault)

Spec == Init /\ [][Next]_vars

\* =================================================================== claims
\* The claims about what a call returns or writes describe calls during which
\* the storage engine raises no error (ret.fault = NoFault); C7 and C8 are
\* the claims about the calls in which it does.

Returned(op) == ret.op = op /\ ret.out.kind # "Panic"

\* The identifiers create_file (create_tag) returned for a name, oldest first.
IssuedFile(f) == SelectSeq(hist.files, LAMBDA e : e.filename = f)
IssuedTag(t) == SelectSeq(hist.tags, LAMBDA e : e.name = t)

\* C1: get_file(f) returns None while no create_file(f) has been executed,
\* and from the first create_file(f), which returned i, on every get_file(f)
\* that returns, returns Some(i), whatever was created in between.
C1_GetFileAfterCreate ==
    Returned("get_file") =>
        LET made == IssuedFile(ret.arg[1]) IN
        IF made = <<>> THEN ret.out.kind = "None"
        ELSE ret.out.kind = "Some" /\ ret.out.val = made[1].id

\* C1 witness: get_file found a name that create_file was given twice.
C1_Witness ==
    /\ Returned("get_file")
    /\ ret.out.kind = "Some"
    /\ Len(IssuedFile(ret.arg[1])) >= 2

\* C2: get_tag(t) returns None while no create_tag(t) has been executed and
\* Some(i), i the identifier the first create_tag(t) returned, afterwards; and
\* the two name spaces are apart: a name only created as a file is not found
\* as a tag, a name only created as a tag is not found as a file.
C2_GetTagAfterCreate ==
    /\ Returned("get_tag") =>
          LET made == IssuedTag(ret.arg[1]) IN
          IF made = <<>> THEN ret.out.kind = "None"
          ELSE ret.out.kind = "Some" /\ ret.out.val = made[1].id
    /\ (Returned("get_file") /\ IssuedFile(ret.arg[1]) = <<>>) => ret.out.kind = "None"

\* C2 witness: get_tag(x) answered from the tags while a file named x exists
\* under another identifier.
C2_Witness ==
    /\ Returned("get_tag")
    /\ ret.out.kind = "Some"
    /\ \E k \in 1..Len(db.files) :
          db.files[k].filename = ret.arg[1] /\ db.files[k].id # ret.out.val

\* The files tag_file linked to a tag.
LinkedFiles(tag) == {hist.assoc[k][2] : k \in {j \in 1..Len(hist.assoc) : hist.assoc[j][1] = tag}}

\* C3: a get_files_for_tag(T) during which the storage engine raises no
\* error returns File rows whose identifiers are exactly the files x for
\* which tag_file(T, x) was executed, no other file among them, and each row
\* carries the filename that file was created with.
C3_FilesForTagExact ==
    (ret.op = "get_files_for_tag" /\ ret.fault = NoFault) =>
        /\ ret.out.kind = "Ok"
        /\ {ret.out.val[k].id : k \in 1..Len(ret.out.val)} = LinkedFiles(ret.arg[1])
        /\ \A k \in 1..Len(ret.out.val) :
              \E j \in 1..Len(hist.files) :
                 /\ hist.files[j].id = ret.out.val[k].id
                 /\ hist.files[j].filename = ret.out.val[k].filename

\* C3 witness: the result holds a file, while another file is linked to no
\* tag or only to another tag.
C3_Witness ==
    /\ ret.op = "get_files_for_tag"
    /\ ret.fault = NoFault
    /\ Len(ret.out.val) >= 1
    /\ \E j \in 1..Len(hist.files) : hist.files[j].id \notin LinkedFiles(ret.arg[1])

IsPrefix(s, t) == Len(s) <= Len(t) /\ SubSeq(t, 1, Len(s)) = s

Rows(d) == <<d.files, d.tags, d.file_tags>>

\* C4: with no storage error, init on an empty database succeeds and leaves
\* it at the latest version; init on a database already at the latest version
\* succeeds and changes neither the version nor any row.
C4_MigrationsIdempotent ==
    [][(ret'.op = "init" /\ ret'.fault = NoFault) =>
          /\ ret'.out.kind = "Ok"
          /\ db'.user_version = LatestVersion
          /\ Rows(db') = Rows(db)
          /\ (db.user_version = LatestVersion => db' = db)]_vars

\* C4 witness: init has succeeded again on a database that holds rows.
C4_Witness ==
    /\ ret.op = "init"
    /\ ret.out.kind = "Ok"
    /\ db.user_version = LatestVersion
    /\ Len(db.files) >= 1
    /\ Len(db.file_tags) >= 1

\* C5: create_file checks no duplicate: with no storage error it succeeds
\* whether or not the filename is there, adds exactly one File row with that
\* filename and returns that row's identifier, which no earlier row has.
C5_CreateFileNoDuplicateCheck ==
    [][(ret'.op = "create_file" /\ ret'.fault = NoFault) =>
          /\ ret'.out.kind = "Ok"
          /\ Len(db'.files) = Len(db.files) + 1
          /\ IsPrefix(db.files, db'.files)
          /\ db'.files[Len(db'.files)] = [id |-> ret'.out.val, filename |-> ret'.arg[1]]
          /\ ret'.out.val \notin Ids(db.files)
          /\ db'.tags = db.tags /\ db'.file_tags = db.file_tags]_vars

\* C5 witness: create_file has just succeeded for a filename that was there.
C5_Witness ==
    /\ ret.op = "create_file"
    /\ ret.out.kind = "Ok"
    /\ \E k \in 1..Len(db.files) :
          db.files[k].filename = ret.arg[1] /\ db.files[k].id # ret.out.val

Distinct(seq) == \A j, k \in 1..Len(seq) : j # k => seq[j].id # seq[k].id

\* C6: an identifier is never issued twice: the identifiers create_file
\* returned are pairwise different, so are those create_tag returned, and no
\* two File rows and no two Tag rows share an identifier.
C6_IdentifiersNeverReused ==
    /\ Distinct(hist.files)
    /\ Distinct(hist.tags)
    /\ Distinct(db.files)
    /\ Distinct(db.tags)

\* C6 witness: two files and two tags have been created.
C6_Witness == Len(hist.files) >= 2 /\ Len(hist.tags) >= 2

\* Every association row is one successful tag_file, in order.
AssocLogged ==
    db.file_tags = [k \in 1..Len(hist.assoc) |->
                       [file_id |-> hist.assoc[k][2], tag_id |-> hist.assoc[k][1]]]

TagFileFatal ==
    /\ AssocLogged
    /\ (ret.op = "tag_file" /\ ret.fault = NoFault) => ret.out.kind = "Unit"
    /\ (ret.op = "tag_file" /\ ret.fault # NoFault) => (ret.out.kind = "Panic" /\ app = "none")
    /\ (ret.op \in {"create_file", "create_tag"} /\ ret.fault # NoFault) =>
           (ret.out.kind = "Err" /\ ret.out.val = DatabaseError)

\* C7 as stated: tag_file inserts one row on success and panics on a storage
\* error, while create_file, create_tag and get_files_for_tag return the
\* storage error as a TaggerError value.
C7_Original ==
    /\ TagFileFatal
    /\ (ret.op = "get_files_for_tag" /\ ret.fault.at \in {"prepare", "step"}) =>
           (ret.out.kind = "Err" /\ ret.out.val = DatabaseError)

\* C7 as amended: tag_file inserts one row on success and panics on a storage
\* error, while create_file and create_tag return the storage error as a
\* TaggerError value; get_files_for_tag returns it when preparing or starting
\* the query fails, and when reading a row fails returns Ok with the rows read
\* before it.
C7_TagFileFatal ==
    /\ TagFileFatal
    /\ (ret.op = "get_files_for_tag" /\ ret.fault.at = "prepare") =>
           (ret.out.kind = "Err" /\ ret.out.val = DatabaseError)
    /\ (ret.op = "get_files_for_tag" /\ ret.fault.at = "step") =>
           /\ ret.out.kind = "Ok"
           /\ Len(ret.out.val) <= ret.fault.k
           /\ {ret.out.val[k].id : k \in 1..Len(ret.out.val)} \subseteq LinkedFiles(ret.arg[1])

\* C7 witness: tag_file has panicked on a storage error, with associations
\* from earlier calls in place.
C7_Witness ==
    /\ ret.op = "tag_file"
    /\ ret.out.kind = "Panic"
    /\ Len(db.file_tags) >= 1

FacadeOps == {"create_file", "get_file", "create_tag", "get_tag", "tag_file", "get_files_for_tag"}

\* C8: an App exists, and a facade operation runs, only on a database at the
\* latest version; an init whose migrations fail returns DirectoryError,
\* yields no App and leaves the version and the rows as they were.
C8_InitBeforeUse ==
    /\ [](app = "open" => db.user_version = LatestVersion)
    /\ [](ret.op \in FacadeOps => db.user_version = LatestVersion)
    /\ [][(ret'.op = "init" /\ ret'.fault.at \in {"version", "migrate"}) =>
             /\ ret'.out.kind = "Err" /\ ret'.out.val = DirectoryError
             /\ app' = app
             /\ db'.user_version = db.user_version
             /\ Rows(db') = Rows(db)]_vars
    /\ [][(ret'.op = "init" /\ ret'.out.kind = "Ok") =>
             (app' = "open" /\ db'.user_version = LatestVersion)]_vars

\* C8 witness: the second migration failed on an empty database, after the
\* first had run; no App, version as before.
C8_Witness ==
    /\ ret.op = "init"
    /\ ret.fault = [at |-> "migrate", k |-> LatestVersion]
    /\ ret.out.val = DirectoryError
    /\ app = "none"
    /\ db.user_version = 0

HasFile(d, f) == \E k \in 1..Len(d.files) : d.files[k].filename = f
HasTag(d, t) == \E k \in 1..Len(d.tags) : d.tags[k].name = t

\* The identifier of the oldest row of that name.
FirstFile(d, f) ==
    LET S == {k \in 1..Len(d.files) : d.files[k].filename = f}
    IN  d.files[CHOOSE k \in S : \A j \in S : k <= j].id
FirstTag(d, t) ==
    LET S == {k \in 1..Len(d.tags) : d.tags[k].name = t}
    IN  d.tags[CHOOSE k \in S : \A j \in S : k <= j].id

\* What `search t` prints on database d when nothing fails.
Listed(d, t) ==
    LET l == cli_search(d, hist, t, NoFault).lines IN {l[k] : k \in 1..Len(l)}

NoDuplicateNames(d) ==
    /\ \A j, k \in 1..Len(d.files) : j # k => d.files[j].filename # d.files[k].filename
    /\ \A j, k \in 1..Len(d.tags) : j # k => d.tags[j].name # d.tags[k].name

\* C9: with no storage error, `tag f t` creates a File row for f only when
\* get_file(f) finds none, a Tag row for t only when get_tag(t) finds none,
\* and adds exactly one association, between the identifiers the look-ups or
\* the creations gave; `search t` then lists f, and keeps listing it; while
\* only `tag` commands have written rows, no two File rows share a filename
\* and no two Tag rows share a name.
C9_TagCreatesIfAbsent ==
    /\ [][(ret'.op = "tag" /\ ret'.fault = NoFault /\ ret'.arg[1] # BadPath) =>
             LET f == ret'.arg[1]
                 t == ret'.arg[2]
             IN  /\ ret'.out.kind = "Ok"
                 /\ IsPrefix(db.files, db'.files)
                 /\ Len(db'.files) = Len(db.files) + (IF HasFile(db, f) THEN 0 ELSE 1)
                 /\ IsPrefix(db.tags, db'.tags)
                 /\ Len(db'.tags) = Len(db.tags) + (IF HasTag(db, t) THEN 0 ELSE 1)
                 /\ db'.file_tags = Append(db.file_tags,
                        [file_id |-> FirstFile(db', f), tag_id |-> FirstTag(db', t)])
                 /\ f \in Listed(db', t)]_vars
    /\ [][db' # db => \A t \in Names : (Listed(db, t) \cap Names) \subseteq Listed(db', t)]_vars
    /\ [](hist.only_tag => NoDuplicateNames(db))

\* C9 witness: a `tag` command reused the file and the tag an earlier `tag`
\* command had created.
C9_Witness ==
    /\ ret.op = "tag"
    /\ ret.out.kind = "Ok"
    /\ ret.fault = NoFault
    /\ hist.only_tag
    /\ Len(db.files) = 1
    /\ Len(db.tags) = 1
    /\ Len(db.file_tags) >= 2

\* C10: a look-up that has found an identifier finds the same one after any
\* step, further rows of that name included; and get_file, get_tag and
\* get_files_for_tag, whatever they return, leave the database as it was.
C10_LookupsStable ==
    /\ [][db' # db => \A n \in Names :
             /\ get_file(db, n, NoFault).out.kind = "Some" =>
                   get_file(db', n, NoFault).out.val = get_file(db, n, NoFault).out.val
             /\ get_tag(db, n, NoFault).out.kind = "Some" =>
                   get_tag(db', n, NoFault).out.val = get_tag(db, n, NoFault).out.val]_vars
    /\ [][ret'.op \in {"get_file", "get_tag", "get_files_for_tag"} => db' = db]_vars
    /\ [](Returned("get_file") => get_file(db, ret.arg[1], NoFault).out = ret.out)
    /\ [](Returned("get_tag") => get_tag(db, ret.arg[1], NoFault).out = ret.out)

\* C10 witness: get_tag found a name of which there are two rows.
C10_Witness ==
    /\ Returned("get_tag")
    /\ ret.out.kind = "Some"
    /\ Len(IssuedTag(ret.arg[1])) >= 2

====
